---- MODULE Spec2Model ----
(***************************************************************************)
(* onEvents (src/src/index.js): attribute-driven DOM event delegation.     *)
(* One listener per used event type is attached to a root node; it finds   *)
(* the nearest ancestor carrying on-<type> and invokes the named action.   *)
(*                                                                         *)
(* The host document is a small fixed tree                                 *)
(*      doc > wrap > outer > inner                                         *)
(* whose elements carry attributes that the environment may set at any     *)
(* time.  The engine's operations (onEvents, the per-type handler, destroy)*)
(* are translated from the source.                                         *)
(***************************************************************************)
EXTENDS Integers, Sequences, FiniteSets, TLC

VARIABLES
    attrs,          \* attrs[el]: the element's attributes, a sequence of [name, value] in insertion order
    phase,          \* "idle" (onEvents not called), "live" (it returned destroy), "threw"
    given,          \* the options object onEvents was called with
    error,          \* what the call of onEvents threw: "none", "config" (line 99) or "TypeError"
    root,           \* the root the engine is bound to
    actions,        \* the actions registry passed by the caller
    preloadEvents,  \* the preloadEvents array the engine was given
    usedEvents,     \* the insertion-ordered Set usedEvents, as a sequence without duplicates
    listeners,      \* the engine's listener records, in registration order
    rootListeners,  \* the event listener list of the root node (the host's)
    initWarns,      \* console.warn calls made by onEvents (skipped types)
    destroyCalls,   \* how many times the returned destroy was called
    detached,       \* the handlers removeEventListener really took off the root, in order
    lateAttrs,      \* the (element, attribute name) pairs first set after onEvents returned
    lastOp,         \* the last operation: "none", "onEvents", "setAttribute", "dispatch", "destroy"
    ev,             \* the last DOM event dispatched
    calls,          \* the function invocations made while dispatching ev
    warns,          \* the console.warn calls made while dispatching ev
    thrown,         \* the handlers of ev that ended in an exception
    other,          \* a second engine on the same document: [phase, root, actions, listeners, destroyCalls]
    otherCalls      \* the function invocations the second engine made while dispatching ev

vars == <<attrs, phase, given, error, root, actions, preloadEvents, usedEvents, listeners, rootListeners,
          initWarns, destroyCalls, detached, lateAttrs, lastOp, ev, calls, warns, thrown,
          other, otherCalls>>

-----------------------------------------------------------------------------
(* Bounds of the exploration *)

\* Attributes in the whole document.
MaxAttrs == 2

\* Calls of the returned destroy function.
MaxDestroy == 2

-----------------------------------------------------------------------------
(* Small helpers *)

Range(s) == {s[i] : i \in 1..Len(s)}

\* An array in place of the Set: a value is added again
SetAddAgain(s, x) == Append(s, x)

\* Set.prototype.add on an insertion-ordered Set
SetAdd(s, x) == IF x \in Range(s) THEN s ELSE Append(s, x)

\* new Set(array)
RECURSIVE NewSet(_)
NewSet(arr) == IF arr = <<>> THEN <<>> ELSE SetAdd(NewSet(SubSeq(arr, 1, Len(arr) - 1)), arr[Len(arr)])

-----------------------------------------------------------------------------
(* Event Catalog: index.js lines 26-66 *)

validEvents ==
    << "click", "dblclick", "mousedown", "mouseup", "submit", "input", "change",
       "focus", "blur", "focusin", "focusout", "reset", "invalid", "keydown", "keyup", "keypress",
       "mouseenter", "mouseleave", "mouseover", "mouseout", "mousemove", "contextmenu",
       "touchstart", "touchend", "touchmove", "scroll", "wheel", "resize", "load",
       "DOMContentLoaded", "beforeunload", "error", "abort", "loadstart", "progress",
       "timeout", "loadend", "play", "pause", "ended", "volumechange", "seeking",
       "animationend", "transitionend" >>

\* validEvents.includes(type)
validEventsIncludes(type) == \E i \in 1..Len(validEvents) : validEvents[i] = type

\* The set with "scroll" forgotten
nonDelegableEventsWithoutScroll ==
    {"resize", "load", "beforeunload", "error", "abort", "DOMContentLoaded"}

nonDelegableEvents ==
    {"scroll", "resize", "load", "beforeunload", "error", "abort", "DOMContentLoaded"}

eventListenerTypeMap ==
    [t \in {"focus", "blur", "mouseenter", "mouseleave"} |->
        CASE t = "focus" -> "focusin"
          [] t = "blur" -> "focusout"
          [] t = "mouseenter" -> "mouseover"
          [] t = "mouseleave" -> "mouseout"]

passiveEvents == {"touchstart", "touchmove", "wheel"}

\* No remap: the listener added under the name as written
listenerTypeAsWritten(type) == type

\* eventListenerTypeMap[type] || type
listenerTypeOf(type) ==
    IF type \in DOMAIN eventListenerTypeMap THEN eventListenerTypeMap[type] ELSE type

\* passiveEvents.has(listenerType) ? { passive: true } : false
listenerOptions(listenerType) ==
    IF listenerType \in passiveEvents
    THEN [capture |-> FALSE, passive |-> TRUE]
    ELSE [capture |-> FALSE, passive |-> FALSE]

-----------------------------------------------------------------------------
(* The host document *)

NoNode == "null"

Elements == {"wrap", "outer", "inner"}
Nodes == {"doc"} \cup Elements

parentNode ==
    [n \in Nodes |->
        CASE n = "doc" -> NoNode
          [] n = "wrap" -> "doc"
          [] n = "outer" -> "wrap"
          [] n = "inner" -> "outer"]

\* start instanceof Element
IsElement(n) == n \in Elements

RECURSIVE Ancestors(_)
\* n and its ancestors, nearest first
Ancestors(n) == IF n = NoNode THEN <<>> ELSE <<n>> \o Ancestors(parentNode[n])

\* Node.contains: inclusive, false for null
Contains(a, b) == b # NoNode /\ a \in Range(Ancestors(b))

\* document order
DocumentOrder == <<"doc", "wrap", "outer", "inner">>

\* root.querySelectorAll("*"): the elements strictly below r, in document order
querySelectorAll(r) ==
    SelectSeq(DocumentOrder, LAMBDA n : IsElement(n) /\ n # r /\ Contains(r, n))

\* An attribute name is modelled by its first three characters and the rest.
AttrName(prefix, rest) == <<prefix, rest>>

\* attr.name.startsWith("on-")
StartsWithOn(name) == name[1] = "on-"

\* attr.name.slice(3)
Slice3(name) == name[2]

\* `on-${type}`
OnAttr(type) == AttrName("on-", type)

hasAttribute(as, el, name) == \E i \in 1..Len(as[el]) : as[el][i].name = name

\* element.getAttribute(name), for an element that has it
getAttribute(as, el, name) ==
    LET i == CHOOSE i \in 1..Len(as[el]) : as[el][i].name = name IN as[el][i].value

\* element.setAttribute(name, value): a new attribute goes last, an existing one keeps its place
setAttribute(as, el, name, value) ==
    IF hasAttribute(as, el, name)
    THEN [as EXCEPT ![el] = [i \in 1..Len(as[el]) |->
                                IF as[el][i].name = name
                                THEN [name |-> name, value |-> value]
                                ELSE as[el][i]]]
    ELSE [as EXCEPT ![el] = Append(as[el], [name |-> name, value |-> value])]

AttrCount(as) == Len(as["wrap"]) + Len(as["outer"]) + Len(as["inner"])

\* Element.matches in place of closest: no walk up the ancestors
closestNoWalk(as, start, type) ==
    IF IsElement(start) /\ hasAttribute(as, start, OnAttr(type)) THEN start ELSE NoNode

\* The farthest matching ancestor in place of the nearest
closestFarthest(as, start, type) ==
    LET anc == SelectSeq(Ancestors(start),
                         LAMBDA n : IsElement(n) /\ hasAttribute(as, n, OnAttr(type)))
    IN  IF anc = <<>> THEN NoNode ELSE anc[Len(anc)]

\* start.closest(`[on-${type}]`): the nearest inclusive ancestor element with the attribute
closest(as, start, type) ==
    LET anc == SelectSeq(Ancestors(start),
                         LAMBDA n : IsElement(n) /\ hasAttribute(as, n, OnAttr(type)))
    IN  IF anc = <<>> THEN NoNode ELSE anc[1]

-----------------------------------------------------------------------------
(* JavaScript values of the options object *)

NoProps == [n \in {} |-> "undefined"]

Undefined == [kind |-> "undefined", props |-> NoProps]
Null == [kind |-> "null", props |-> NoProps]
AString == [kind |-> "string", props |-> NoProps]
AFunction == [kind |-> "function", props |-> NoProps]
\* a plain object whose own properties are props: name -> "function" or "string"
Object(props) == [kind |-> "object", props |-> props]

\* !v is false
Truthy(v) == v.kind \notin {"undefined", "null"}

\* typeof v
TypeOf(v) == IF v.kind = "null" THEN "object" ELSE v.kind

\* The function-valued properties every plain object inherits from Object.prototype
ObjectPrototypeFunctions ==
    {"constructor", "toString", "toLocaleString", "valueOf", "hasOwnProperty",
     "isPrototypeOf", "propertyIsEnumerable"}

\* Those that throw a TypeError when called as fn(arg), that is with this === undefined
ThrowsWithoutThis ==
    {"toLocaleString", "valueOf", "hasOwnProperty", "isPrototypeOf", "propertyIsEnumerable"}

\* fnName && actions[fnName]: the value found, with the object that holds it
LookupAction(acts, fnName) ==
    IF fnName = "" THEN [typeof |-> "string", owner |-> "none"]
    ELSE IF fnName \in DOMAIN acts.props
         THEN [typeof |-> acts.props[fnName], owner |-> "actions"]
    ELSE IF fnName \in ObjectPrototypeFunctions
         THEN [typeof |-> "function", owner |-> "Object.prototype"]
    ELSE [typeof |-> "undefined", owner |-> "none"]

-----------------------------------------------------------------------------
(* The host's event listener list of a node *)

\* The handler closure onEvents creates for one type
HandlerOf(type) == [owner |-> "engine", type |-> type]

SameListener(l, type, handler, capture) ==
    l.type = type /\ l.handler = handler /\ l.capture = capture

\* EventTarget.addEventListener(type, handler, options): no duplicate of (type, handler, capture)
addEventListener(rl, type, handler, options) ==
    IF \E i \in 1..Len(rl) : SameListener(rl[i], type, handler, options.capture)
    THEN rl
    ELSE Append(rl, [type |-> type, handler |-> handler,
                     capture |-> options.capture, passive |-> options.passive])

\* A removal that asks for the capture listener, which was never added
removeEventListenerCapture(rl, type, handler) ==
    SelectSeq(rl, LAMBDA l : ~SameListener(l, type, handler, TRUE))

\* Every listener of the type removed, whoever added it
removeEventListenerByType(rl, type, handler) ==
    SelectSeq(rl, LAMBDA l : l.type # type)

\* EventTarget.removeEventListener(type, handler): capture defaults to false
removeEventListener(rl, type, handler) ==
    SelectSeq(rl, LAMBDA l : ~SameListener(l, type, handler, FALSE))

-----------------------------------------------------------------------------
(* The outcome of the last dispatch *)

\* event.composedPath is not a function
NoPath == <<"none">>

NoEvent == [type |-> "none", target |-> NoNode, related |-> NoNode, path |-> NoPath]

\* Any operation but a dispatch leaves no dispatch outcome behind
NoOutcome ==
    /\ ev' = NoEvent
    /\ calls' = <<>>
    /\ warns' = <<>>
    /\ thrown' = <<>>
    /\ otherCalls' = <<>>

-----------------------------------------------------------------------------
(* onEvents: index.js lines 93-164 *)

\* lines 107-115: the attributes of one element, in order
RECURSIVE ScanAttributes(_, _)
ScanAttributes(used, at) ==
    IF at = <<>> THEN used
    ELSE LET name == Head(at).name
             next == IF StartsWithOn(name) /\ validEventsIncludes(Slice3(name))
                     THEN SetAdd(used, Slice3(name))
                     ELSE used
         IN  ScanAttributes(next, Tail(at))

\* lines 105-116: every element below the root
RECURSIVE ScanElements(_, _, _)
ScanElements(used, as, els) ==
    IF els = <<>> THEN used
    ELSE ScanElements(ScanAttributes(used, as[Head(els)]), as, Tail(els))

\* usedEvents starting empty: the preload forgotten
DiscoverWithoutPreload(as, r, preload) == ScanElements(<<>>, as, querySelectorAll(r))

\* lines 103-116
Discover(as, r, preload) == ScanElements(NewSet(preload), as, querySelectorAll(r))

\* The listener attached but no record kept: listeners.push forgotten
RECURSIVE RegisterWithoutRecord(_, _)
RegisterWithoutRecord(used, st) ==
    IF used = <<>> THEN st
    ELSE LET type == Head(used)
             listenerType == listenerTypeOf(type)
             handler == HandlerOf(type)
         IN  IF type \in nonDelegableEvents
             THEN RegisterWithoutRecord(Tail(used), [st EXCEPT !.w = Append(@, type)])
             ELSE RegisterWithoutRecord(Tail(used),
                    [st EXCEPT
                       !.rl = addEventListener(@, listenerType, handler,
                                               listenerOptions(listenerType))])

\* lines 118-157: one pass over Array.from(usedEvents); st = [ls, rl, w]
RECURSIVE Register(_, _)
Register(used, st) ==
    IF used = <<>> THEN st
    ELSE LET type == Head(used)
             listenerType == listenerTypeOf(type)
             handler == HandlerOf(type)
         IN  IF type \in nonDelegableEvents
             THEN Register(Tail(used), [st EXCEPT !.w = Append(@, type)])
             ELSE Register(Tail(used),
                    [st EXCEPT
                       !.rl = addEventListener(@, listenerType, handler,
                                               listenerOptions(listenerType)),
                       !.ls = Append(@, [type |-> listenerType, handler |-> handler])])

\* options.root with its default (line 95)
RootOf(opts) == IF opts.root = "undefined" THEN "doc" ELSE opts.root

\* options.preloadEvents with its default (line 96)
PreloadOf(opts) ==
    IF opts.preloadEvents.kind = "undefined" THEN <<>> ELSE opts.preloadEvents.items

\* Only !actions is tested: the typeof test forgotten
ThrownByFalsyOnly(opts) ==
    IF ~Truthy(opts.actions) THEN "config"
    ELSE IF opts.preloadEvents.kind = "number" THEN "TypeError"
    ELSE IF RootOf(opts) = NoNode THEN "TypeError"
    ELSE "none"

\* What the call throws, if anything: line 98, then new Set (line 103), then
\* root.querySelectorAll (line 105)
ThrownBy(opts) ==
    IF ~Truthy(opts.actions) \/ TypeOf(opts.actions) # "object" THEN "config"
    ELSE IF opts.preloadEvents.kind = "number" THEN "TypeError"
    ELSE IF RootOf(opts) = NoNode THEN "TypeError"
    ELSE "none"

\* The actions test made after the listeners were attached
onEventsValidatesLast(opts) ==
    /\ phase = "idle"
    /\ lastOp' = "onEvents"
    /\ given' = opts
    /\ error' = ThrownBy(opts)
    /\ IF ThrownBy(opts) # "none"
       THEN /\ phase' = "threw"
            /\ rootListeners' =
                 IF opts.preloadEvents.kind # "number" /\ RootOf(opts) # NoNode
                 THEN Register(Discover(attrs, RootOf(opts), PreloadOf(opts)),
                               [ls |-> <<>>, rl |-> rootListeners, w |-> <<>>]).rl
                 ELSE rootListeners
            /\ UNCHANGED <<root, actions, preloadEvents, usedEvents, listeners, initWarns>>
       ELSE LET used == Discover(attrs, RootOf(opts), PreloadOf(opts))
                st == Register(used, [ls |-> <<>>, rl |-> rootListeners, w |-> <<>>])
            IN  /\ phase' = "live"
                /\ root' = RootOf(opts)
                /\ actions' = opts.actions
                /\ preloadEvents' = PreloadOf(opts)
                /\ usedEvents' = used
                /\ listeners' = st.ls
                /\ rootListeners' = st.rl
                /\ initWarns' = st.w
    /\ NoOutcome
    /\ UNCHANGED <<attrs, destroyCalls, detached, lateAttrs, other>>

onEvents(opts) ==
    /\ phase = "idle"
    /\ lastOp' = "onEvents"
    /\ given' = opts
    /\ error' = ThrownBy(opts)
    /\ IF ThrownBy(opts) # "none"
       THEN /\ phase' = "threw"
            /\ UNCHANGED <<root, actions, preloadEvents, usedEvents, listeners,
                           rootListeners, initWarns>>
       ELSE LET used == Discover(attrs, RootOf(opts), PreloadOf(opts))
                st == Register(used, [ls |-> <<>>, rl |-> rootListeners, w |-> <<>>])
            IN  /\ phase' = "live"
                /\ root' = RootOf(opts)
                /\ actions' = opts.actions
                /\ preloadEvents' = PreloadOf(opts)
                /\ usedEvents' = used
                /\ listeners' = st.ls
                /\ rootListeners' = st.rl
                /\ initWarns' = st.w
    /\ NoOutcome
    /\ UNCHANGED <<attrs, destroyCalls, detached, lateAttrs, other>>

-----------------------------------------------------------------------------
(* destroy: index.js lines 159-163 *)

\* listeners.forEach(removeEventListener); st = [rl, gone]
RECURSIVE Unregister(_, _)
Unregister(ls, st) ==
    IF ls = <<>> THEN st
    ELSE LET l == Head(ls)
             rest == removeEventListener(st.rl, l.type, l.handler)
         IN  Unregister(Tail(ls),
                [rl |-> rest,
                 gone |-> IF rest # st.rl THEN Append(st.gone, l.handler) ELSE st.gone])

\* A walk that misses the first record
destroySkipsFirst(ls) == IF ls = <<>> THEN ls ELSE Tail(ls)

\* the records one call of destroy walks
destroyRecords(ls) == ls

destroy ==
    /\ phase = "live"
    /\ destroyCalls < MaxDestroy
    /\ LET st == Unregister(destroyRecords(listeners), [rl |-> rootListeners, gone |-> detached])
       IN  /\ rootListeners' = st.rl
           /\ detached' = st.gone
    /\ destroyCalls' = destroyCalls + 1
    /\ lastOp' = "destroy"
    /\ NoOutcome
    /\ UNCHANGED <<attrs, phase, given, error, root, actions, preloadEvents, usedEvents, listeners,
                   initWarns, lateAttrs, other>>

-----------------------------------------------------------------------------
(* The handler of one type: index.js lines 128-152 *)

\* lines 129-131
startOf(e) == IF e.path # NoPath /\ Len(e.path) > 0 THEN e.path[1] ELSE e.target

matchedElement(as, e, type) ==
    IF IsElement(startOf(e)) THEN closest(as, startOf(e), type) ELSE NoNode

\* The related target must be a proper descendant: the element itself does not count
suppressedProperDescendant(type, element, e) ==
    /\ type \in {"mouseenter", "mouseleave"}
    /\ e.related # NoNode
    /\ e.related # element
    /\ Contains(element, e.related)

\* lines 135-140
suppressed(type, element, e) ==
    /\ type \in {"mouseenter", "mouseleave"}
    /\ e.related # NoNode
    /\ Contains(element, e.related)

Nothing == [calls |-> <<>>, warns |-> <<>>, thrown |-> <<>>]

\* The handler without the root.contains test of line 132
handlerNoRootCheck(type, as, r, acts, e) ==
    LET element == matchedElement(as, e, type) IN
    IF element = NoNode THEN Nothing
    ELSE IF suppressed(type, element, e) THEN Nothing
    ELSE LET fnName == getAttribute(as, element, OnAttr(type))
             fn == LookupAction(acts, fnName)
         IN  IF fn.typeof = "function"
             THEN [calls |-> << [via |-> type, name |-> fnName, owner |-> fn.owner,
                                 element |-> element, event |-> e] >>,
                   warns |-> <<>>,
                   thrown |-> IF fn.owner = "Object.prototype" /\ fnName \in ThrowsWithoutThis
                              THEN <<type>> ELSE <<>>]
             ELSE [calls |-> <<>>, warns |-> << [fnName |-> fnName, type |-> type] >>,
                   thrown |-> <<>>]

\* One invocation of the handler created for `type`, as what it adds to the outcome
handler(type, as, r, acts, e) ==
    LET element == matchedElement(as, e, type) IN
    IF element = NoNode \/ ~Contains(r, element) THEN Nothing
    ELSE IF suppressed(type, element, e) THEN Nothing
    ELSE LET fnName == getAttribute(as, element, OnAttr(type))
             fn == LookupAction(acts, fnName)
         IN  IF fn.typeof = "function"
             THEN [calls |-> << [via |-> type, name |-> fnName, owner |-> fn.owner,
                                 element |-> element, event |-> e] >>,
                   warns |-> <<>>,
                   thrown |-> IF fn.owner = "Object.prototype" /\ fnName \in ThrowsWithoutThis
                              THEN <<type>> ELSE <<>>]
             ELSE [calls |-> <<>>, warns |-> << [fnName |-> fnName, type |-> type] >>,
                   thrown |-> <<>>]

\* The host runs the root's listeners of the event's type, in order of registration
RECURSIVE RunListeners(_, _, _)
RunListeners(rl, e, out) ==
    IF rl = <<>> THEN out
    ELSE IF Head(rl).type # e.type \/ Head(rl).handler.owner # "engine"
         THEN RunListeners(Tail(rl), e, out)
    ELSE LET o == handler(Head(rl).handler.type, attrs, root, actions, e)
         IN  RunListeners(Tail(rl), e,
                [calls |-> out.calls \o o.calls, warns |-> out.warns \o o.warns,
                 thrown |-> out.thrown \o o.thrown])

\* The same, for the listeners a second engine attached: its handlers close over
\* its own root and registry
RECURSIVE RunListenersOf(_, _, _, _)
RunListenersOf(inst, rl, e, out) ==
    IF rl = <<>> THEN out
    ELSE IF Head(rl).type # e.type \/ Head(rl).handler.owner # inst
         THEN RunListenersOf(inst, Tail(rl), e, out)
    ELSE LET o == handler(Head(rl).handler.type, attrs, other.root, other.actions, e)
         IN  RunListenersOf(inst, Tail(rl), e,
                [calls |-> out.calls \o o.calls, warns |-> out.warns \o o.warns,
                 thrown |-> out.thrown \o o.thrown])

\* A DOM event of type e.type on e.target, bubbling; it reaches the root's
\* listeners when the target is inside the root.
dispatch(e) ==
    /\ phase = "live"
    /\ LET out == IF Contains(root, e.target)
                  THEN RunListeners(rootListeners, e, Nothing)
                  ELSE Nothing
       IN  /\ calls' = out.calls
           /\ warns' = out.warns
           /\ thrown' = out.thrown
    /\ otherCalls' = IF other.phase = "live" /\ Contains(other.root, e.target)
                      THEN RunListenersOf("other", rootListeners, e, Nothing).calls
                      ELSE <<>>
    /\ ev' = e
    /\ lastOp' = "dispatch"
    /\ UNCHANGED <<attrs, phase, given, error, root, actions, preloadEvents, usedEvents, listeners,
                   rootListeners, initWarns, destroyCalls, detached, lateAttrs, other>>

-----------------------------------------------------------------------------
(* A second call of onEvents on the same root, and the destroy it returned *)

NoInstance ==
    [phase |-> "idle", root |-> NoNode, actions |-> Undefined, listeners |-> <<>>,
     destroyCalls |-> 0]

\* lines 128-152: every call of onEvents creates handler closures of its own
HandlerOfInstance(inst, type) == [owner |-> inst, type |-> type]

\* lines 118-157, for the closures of the instance inst; st = [ls, rl, w]
RECURSIVE RegisterInstance(_, _, _)
RegisterInstance(inst, used, st) ==
    IF used = <<>> THEN st
    ELSE LET type == Head(used)
             listenerType == listenerTypeOf(type)
             h == HandlerOfInstance(inst, type)
         IN  IF type \in nonDelegableEvents
             THEN RegisterInstance(inst, Tail(used), [st EXCEPT !.w = Append(@, type)])
             ELSE RegisterInstance(inst, Tail(used),
                    [st EXCEPT
                       !.rl = addEventListener(@, listenerType, h,
                                               listenerOptions(listenerType)),
                       !.ls = Append(@, [type |-> listenerType, handler |-> h])])

\* Both engines are bound to the same node, whose listener list is rootListeners
onEventsOther(opts) ==
    /\ other.phase = "idle"
    /\ ThrownBy(opts) = "none"
    /\ phase = "live" => RootOf(opts) = root
    /\ LET used == Discover(attrs, RootOf(opts), PreloadOf(opts))
           st == RegisterInstance("other", used,
                                  [ls |-> <<>>, rl |-> rootListeners, w |-> <<>>])
       IN  /\ other' = [phase |-> "live", root |-> RootOf(opts), actions |-> opts.actions,
                        listeners |-> st.ls, destroyCalls |-> 0]
           /\ rootListeners' = st.rl
    /\ lastOp' = "onEventsOther"
    /\ NoOutcome
    /\ UNCHANGED <<attrs, phase, given, error, root, actions, preloadEvents, usedEvents, listeners,
                   initWarns, destroyCalls, detached, lateAttrs>>

destroyOther ==
    /\ other.phase = "live"
    /\ other.destroyCalls < MaxDestroy
    /\ rootListeners' = Unregister(other.listeners, [rl |-> rootListeners, gone |-> <<>>]).rl
    /\ other' = [other EXCEPT !.destroyCalls = @ + 1]
    /\ lastOp' = "destroyOther"
    /\ NoOutcome
    /\ UNCHANGED <<attrs, phase, given, error, root, actions, preloadEvents, usedEvents, listeners,
                   initWarns, destroyCalls, detached, lateAttrs>>

-----------------------------------------------------------------------------
(* The environment changes the document *)

SetAttribute(el, name, value) ==
    /\ AttrCount(setAttribute(attrs, el, name, value)) <= MaxAttrs
    /\ attrs' = setAttribute(attrs, el, name, value)
    /\ lateAttrs' = IF phase = "live" /\ ~hasAttribute(attrs, el, name)
                    THEN lateAttrs \cup {<<el, name>>}
                    ELSE lateAttrs
    /\ lastOp' = "setAttribute"
    /\ NoOutcome
    /\ UNCHANGED <<phase, given, error, root, actions, preloadEvents, usedEvents, listeners,
                   rootListeners, initWarns, destroyCalls, detached, other>>

-----------------------------------------------------------------------------
(* The caller changes the registry object it passed: the engine holds a reference *)

\* actions[name] = <a value of the kind given>
SetAction(name, kind) ==
    /\ phase = "live"
    /\ actions' = [actions EXCEPT !.props =
                      [n \in DOMAIN actions.props \cup {name} |->
                          IF n = name THEN kind ELSE actions.props[n]]]
    /\ lastOp' = "setAction"
    /\ NoOutcome
    /\ UNCHANGED <<attrs, phase, given, error, root, preloadEvents, usedEvents, listeners,
                   rootListeners, initWarns, destroyCalls, detached, lateAttrs, other>>

\* delete actions[name]
DeleteAction(name) ==
    /\ phase = "live"
    /\ name \in DOMAIN actions.props
    /\ actions' = [actions EXCEPT !.props =
                      [n \in DOMAIN actions.props \ {name} |-> actions.props[n]]]
    /\ lastOp' = "deleteAction"
    /\ NoOutcome
    /\ UNCHANGED <<attrs, phase, given, error, root, preloadEvents, usedEvents, listeners,
                   rootListeners, initWarns, destroyCalls, detached, lateAttrs, other>>

-----------------------------------------------------------------------------
(* Inputs *)

Registry == Object([n \in {"a", "b", "n"} |-> IF n = "n" THEN "string" ELSE "function"])

Array(items) == [kind |-> "array", items |-> items]
NoArray == [kind |-> "undefined", items |-> <<>>]
NotIterable == [kind |-> "number", items |-> <<>>]

NoOptions == [actions |-> Undefined, root |-> "undefined", preloadEvents |-> NoArray]

Event(type, target, related, withPath) ==
    [type |-> type, target |-> target, related |-> related,
     path |-> IF withPath THEN Ancestors(target) ELSE NoPath]

AttrNamesOf(types) == {OnAttr(t) : t \in types}

\* Core: a delegable and a non-delegable name
CoreNames == AttrNamesOf({"click", "scroll"})
CoreValues == {"a", "b"}
CoreOptions ==
    [actions : {Registry}, root : {"undefined", "outer"},
     preloadEvents : {NoArray, Array(<<"click">>), Array(<<"scroll">>)}]
CoreEvents ==
    {Event(t, n, NoNode, TRUE) : t \in {"click", "scroll"}, n \in Elements}
    \cup {Event("click", "inner", NoNode, FALSE), Event("click", "doc", NoNode, TRUE)}

\* Pointer: the remapped enter/leave types beside a type they are remapped to
PointerNames == AttrNamesOf({"mouseenter", "mouseleave", "mouseover"})
PointerValues == {"a", "b"}
PointerOptions ==
    [actions : {Registry}, root : {"undefined"},
     preloadEvents : {NoArray, Array(<<"mouseenter">>)}]
PointerElements == {"outer", "inner"}
PointerEvents ==
    {Event(t, n, r, TRUE) : t \in {"mouseover", "mouseout"}, n \in PointerElements,
                            r \in Elements \cup {NoNode}}

\* Names: what the attribute value may name
NamesNames == AttrNamesOf({"click"})
NamesValues == {"a", "n", "m", "valueOf", ""}
NamesOptions ==
    [actions : {Registry}, root : {"undefined"}, preloadEvents : {NoArray, Array(<<"click">>)}]
NamesEvents == {Event("click", n, NoNode, TRUE) : n \in Elements}
\* the registry keys the caller adds or deletes after onEvents returned
NamesAdded == {"a", "m"}
NamesDeleted == {"a"}

\* Options: well-formed and malformed options, supported and unsupported names
OptionsNames == AttrNamesOf({"click", "bogus"}) \cup {AttrName("my-", "click")}
OptionsValues == {"a"}
OptionsOptions ==
    [actions : {Undefined, Null, AString, AFunction, Registry},
     root : {"undefined", "outer", NoNode},
     preloadEvents : {NoArray, NotIterable, Array(<<"bogus">>), Array(<<"scroll", "click">>)}]
OptionsEvents == {Event(t, n, NoNode, TRUE) : t \in {"click", "bogus"}, n \in {"outer", "inner"}}

\* Instances: two engines on the same root, the first one possibly misconfigured
InstancesNames == AttrNamesOf({"click", "mouseover"})
InstancesValues == {"a"}
InstancesElements == {"outer", "inner"}
InstancesOptions ==
    [actions : {Registry, Undefined}, root : {"undefined"},
     preloadEvents : {NoArray, Array(<<"click">>)}]
OtherOptions ==
    [actions : {Registry}, root : {"undefined"}, preloadEvents : {NoArray, Array(<<"click">>)}]
InstancesEvents ==
    {Event(t, n, NoNode, TRUE) : t \in {"click", "mouseover"}, n \in InstancesElements}

-----------------------------------------------------------------------------
(* Specifications *)

Init ==
    /\ attrs = [el \in Elements |-> <<>>]
    /\ phase = "idle"
    /\ given = NoOptions
    /\ error = "none"
    /\ root = NoNode
    /\ actions = Undefined
    /\ preloadEvents = <<>>
    /\ usedEvents = <<>>
    /\ listeners = <<>>
    /\ rootListeners = <<>>
    /\ initWarns = <<>>
    /\ destroyCalls = 0
    /\ detached = <<>>
    /\ lateAttrs = {}
    /\ lastOp = "none"
    /\ ev = NoEvent
    /\ calls = <<>>
    /\ warns = <<>>
    /\ thrown = <<>>
    /\ other = NoInstance
    /\ otherCalls = <<>>

Next ==
    \/ \E opts \in CoreOptions : onEvents(opts)
    \/ destroy
    \/ \E e \in CoreEvents : dispatch(e)
    \/ \E el \in Elements, name \in CoreNames, value \in CoreValues : SetAttribute(el, name, value)

Spec == Init /\ [][Next]_vars

NextPointer ==
    \/ \E opts \in PointerOptions : onEvents(opts)
    \/ destroy
    \/ \E e \in PointerEvents : dispatch(e)
    \/ \E el \in PointerElements, name \in PointerNames, value \in PointerValues :
          SetAttribute(el, name, value)

SpecPointer == Init /\ [][NextPointer]_vars

NextNames ==
    \/ \E opts \in NamesOptions : onEvents(opts)
    \/ destroy
    \/ \E e \in NamesEvents : dispatch(e)
    \/ \E el \in Elements, name \in NamesNames, value \in NamesValues :
          SetAttribute(el, name, value)
    \/ \E name \in NamesAdded : SetAction(name, "function")
    \/ \E name \in NamesDeleted : DeleteAction(name)

SpecNames == Init /\ [][NextNames]_vars

NextOptions ==
    \/ \E opts \in OptionsOptions : onEvents(opts)
    \/ destroy
    \/ \E e \in OptionsEvents : dispatch(e)
    \/ \E el \in Elements, name \in OptionsNames, value \in OptionsValues :
          SetAttribute(el, name, value)

SpecOptions == Init /\ [][NextOptions]_vars

NextInstances ==
    \/ \E opts \in InstancesOptions : onEvents(opts)
    \/ destroy
    \/ \E opts \in OtherOptions : onEventsOther(opts)
    \/ destroyOther
    \/ \E e \in InstancesEvents : dispatch(e)
    \/ \E el \in InstancesElements, name \in InstancesNames, value \in InstancesValues :
          SetAttribute(el, name, value)

SpecInstances == Init /\ [][NextInstances]_vars

-----------------------------------------------------------------------------
(* Vocabulary of the properties *)

\* The engine is initialized and not torn down
Live == phase = "live" /\ destroyCalls = 0

\* el is under r: a descendant of r, r itself excluded
Below(r, el) == el # r /\ Contains(r, el)

\* the attribute value names a function the caller put in the registry
OwnFunction(name) == name \in DOMAIN actions.props /\ actions.props[name] = "function"

\* el carried on-<t> when onEvents ran (the document never loses an attribute)
CarriedAtInit(el, t) ==
    hasAttribute(attrs, el, OnAttr(t)) /\ <<el, OnAttr(t)>> \notin lateAttrs

\* t was preloaded, or carried by an element under the root when onEvents ran
Subscribed(t) ==
    \/ t \in Range(preloadEvents)
    \/ \E el \in Elements : Below(root, el) /\ CarriedAtInit(el, t)

\* the elements carrying on-<t> on the way from the node n up to the document
Carriers(n, t) == {c \in Elements : hasAttribute(attrs, c, OnAttr(t)) /\ Contains(c, n)}

\* el is the nearest inclusive ancestor of n that carries on-<t>
NearestCarrier(el, n, t) ==
    el \in Carriers(n, t) /\ \A c \in Carriers(n, t) : Contains(c, el)

\* the DOM event type under which an occurrence of t bubbles up to the root
BubblingTypeOf(t) ==
    CASE t = "focus" -> "focusin"
      [] t = "blur" -> "focusout"
      [] t = "mouseenter" -> "mouseover"
      [] t = "mouseleave" -> "mouseout"
      [] OTHER -> t

\* the invocations made by the handler installed for type t
CallsVia(t) == SelectSeq(calls, LAMBDA c : c.via = t)

SupportedNames == Range(validEvents)

NonDelegableNames ==
    {"scroll", "resize", "load", "beforeunload", "error", "abort", "DOMContentLoaded"}

\* the one invocation of the action `name` by the handler of t on el for the event ev
TheCall(t, name, el) ==
    << [via |-> t, name |-> name, owner |-> "actions", element |-> el, event |-> ev] >>

-----------------------------------------------------------------------------
(* C1 *)

\* C1, as stated: for every supported event name e and every element el under the
\* root that carries on-e="name", an occurrence of e whose propagation path includes
\* el invokes actions.name exactly once, with element === el (engine not torn down).
C1_EveryPathElementInvoked ==
    (lastOp = "dispatch" /\ Live) =>
        \A t \in SupportedNames, el \in Elements :
            ( /\ ev.type = BubblingTypeOf(t)
              /\ Below(root, el)
              /\ CarriedAtInit(el, t)
              /\ OwnFunction(getAttribute(attrs, el, OnAttr(t)))
              /\ Contains(el, ev.target) )
            => LET name == getAttribute(attrs, el, OnAttr(t))
                   made == SelectSeq(calls, LAMBDA c : c.name = name)
               IN  Len(made) = 1 /\ made[1].element = el

\* C1, amended: for every supported delegable event name e that the engine subscribed
\* at initialization and every element el inside the root whose on-e names a function
\* of the registry, an occurrence of e whose originating node has el as its nearest
\* inclusive ancestor carrying on-e (and, for mouseenter/mouseleave, whose related
\* target is not inside el) and which reaches the root makes the handler of e invoke
\* actions.name exactly once, with element === el, as long as the engine is not torn
\* down.
C1_NearestDelegableInvokedOnce ==
    (lastOp = "dispatch" /\ Live) =>
        \A t \in SupportedNames \ NonDelegableNames, el \in Elements :
            ( /\ ev.type = BubblingTypeOf(t)
              /\ Subscribed(t)
              /\ Contains(root, el)
              /\ Contains(root, ev.target)
              /\ NearestCarrier(el, ev.target, t)
              /\ OwnFunction(getAttribute(attrs, el, OnAttr(t)))
              /\ ~(t \in {"mouseenter", "mouseleave"} /\ Contains(el, ev.related)) )
            => CallsVia(t) = TheCall(t, getAttribute(attrs, el, OnAttr(t)), el)

\* A click that starts at a descendant of the matched element invokes its action once.
C1_Witness ==
    /\ lastOp = "dispatch" /\ Live
    /\ ev.type = "click"
    /\ \E el \in Elements :
          /\ NearestCarrier(el, ev.target, "click")
          /\ Below(root, el)
          /\ ev.target # el
          /\ calls = TheCall("click", getAttribute(attrs, el, OnAttr("click")), el)

-----------------------------------------------------------------------------
(* C4 *)

\* C4: for every non-delegable name no listener is attached and no action is ever
\* invoked through delegation, whether the name comes from an attribute or from
\* preloadEvents; an event of such a type invokes nothing.
C4_NonDelegableNeverAttached ==
    /\ \A i \in 1..Len(rootListeners) :
          /\ rootListeners[i].type \notin NonDelegableNames
          /\ rootListeners[i].handler.type \notin NonDelegableNames
    /\ \A i \in 1..Len(listeners) : listeners[i].handler.type \notin NonDelegableNames
    /\ \A i \in 1..Len(calls) : calls[i].via \notin NonDelegableNames
    /\ ev.type \in NonDelegableNames => calls = <<>>

\* A scroll event on an element inside the root that carried on-scroll="a" when the
\* engine was initialized: scroll is in the used set, and nothing is invoked.
C4_Witness ==
    /\ lastOp = "dispatch" /\ Live
    /\ ev.type = "scroll"
    /\ "scroll" \in Range(usedEvents)
    /\ "scroll" \notin Range(preloadEvents)
    /\ \E el \in Elements :
           /\ NearestCarrier(el, ev.target, "scroll")
           /\ Below(root, el)
           /\ CarriedAtInit(el, "scroll")
           /\ OwnFunction(getAttribute(attrs, el, OnAttr("scroll")))
    /\ calls = <<>>

-----------------------------------------------------------------------------
(* C6 *)

\* C6: discovery runs once, at initialization.  For a supported delegable type t and
\* an element el inside the root that received on-t="name" after onEvents returned
\* (name a function of the registry, el the nearest carrier for the event, engine not
\* torn down): a later t event invokes the action, once, if t was preloaded or carried
\* by an element under the root at initialization, and never if neither.
C6_DiscoveryOnlyAtInit ==
    (lastOp = "dispatch" /\ Live) =>
        \A t \in SupportedNames \ NonDelegableNames, el \in Elements :
            ( /\ ev.type = BubblingTypeOf(t)
              /\ <<el, OnAttr(t)>> \in lateAttrs
              /\ Contains(root, el)
              /\ Contains(root, ev.target)
              /\ NearestCarrier(el, ev.target, t)
              /\ OwnFunction(getAttribute(attrs, el, OnAttr(t)))
              /\ ~(t \in {"mouseenter", "mouseleave"} /\ Contains(el, ev.related)) )
            => IF Subscribed(t)
               THEN CallsVia(t) = TheCall(t, getAttribute(attrs, el, OnAttr(t)), el)
               ELSE CallsVia(t) = <<>>

\* click was preloaded, no element carried on-click at initialization, one received
\* it afterwards, and a click on it invokes its action.
C6_Witness ==
    /\ lastOp = "dispatch" /\ Live
    /\ ev.type = "click"
    /\ "click" \in Range(preloadEvents)
    /\ \A n \in Elements : ~CarriedAtInit(n, "click")
    /\ \E el \in Elements :
          /\ <<el, OnAttr("click")>> \in lateAttrs
          /\ NearestCarrier(el, ev.target, "click")
          /\ calls = TheCall("click", getAttribute(attrs, el, OnAttr("click")), el)

\* The other half: click was neither preloaded nor carried at initialization, an
\* element received on-click afterwards, and a click on it invokes nothing.
C6_WitnessNotSubscribed ==
    /\ lastOp = "dispatch" /\ Live
    /\ ev.type = "click"
    /\ ~Subscribed("click")
    /\ \E el \in Elements :
          /\ <<el, OnAttr("click")>> \in lateAttrs
          /\ Below(root, el)
          /\ NearestCarrier(el, ev.target, "click")
          /\ OwnFunction(getAttribute(attrs, el, OnAttr("click")))
    /\ calls = <<>>

-----------------------------------------------------------------------------
(* C7 *)

\* C7: nearest-ancestor resolution.  One event occurrence makes the handler of a type
\* invoke at most one action, that of the nearest inclusive ancestor of the
\* originating node carrying on-<type>, never that of a farther one.
C7_NearestAncestorWins ==
    lastOp = "dispatch" =>
        /\ \A i \in 1..Len(calls) :
              /\ hasAttribute(attrs, calls[i].element, OnAttr(calls[i].via))
              /\ Contains(calls[i].element, ev.target)
              /\ \A n \in Elements :
                    ( /\ hasAttribute(attrs, n, OnAttr(calls[i].via))
                      /\ Contains(n, ev.target) )
                    => Contains(n, calls[i].element)
              /\ calls[i].name = getAttribute(attrs, calls[i].element, OnAttr(calls[i].via))
        /\ \A t \in SupportedNames : Len(CallsVia(t)) <= 1

\* outer[on-click=a] > inner[on-click=b]: a click on inner invokes b once, a never.
C7_Witness ==
    /\ lastOp = "dispatch" /\ Live
    /\ ev.type = "click" /\ ev.target = "inner"
    /\ hasAttribute(attrs, "outer", OnAttr("click"))
    /\ hasAttribute(attrs, "inner", OnAttr("click"))
    /\ getAttribute(attrs, "outer", OnAttr("click")) = "a"
    /\ getAttribute(attrs, "inner", OnAttr("click")) = "b"
    /\ calls = TheCall("click", "b", "inner")

-----------------------------------------------------------------------------
(* C2 *)

EngineListenersOnRoot ==
    {i \in 1..Len(rootListeners) : rootListeners[i].handler.owner = "engine"}

\* C2: once the returned teardown has been called, none of the engine's listeners is
\* on the root and no DOM event invokes an action (or anything else) through the
\* engine, whatever events and document changes follow.
C2_NothingAfterTeardown ==
    destroyCalls >= 1 =>
        /\ EngineListenersOnRoot = {}
        /\ calls = <<>>
        /\ warns = <<>>
        /\ thrown = <<>>

\* After a teardown of an engine with several listeners, a mouseover on an element
\* whose on-mouseover names a registry function, a type the engine had subscribed.
C2_Witness ==
    /\ destroyCalls >= 1
    /\ Len(listeners) >= 2
    /\ lastOp = "dispatch"
    /\ ev.type = "mouseover"
    /\ "mouseover" \in Range(usedEvents)
    /\ \E el \in Elements :
          /\ NearestCarrier(el, ev.target, "mouseover")
          /\ OwnFunction(getAttribute(attrs, el, OnAttr("mouseover")))

-----------------------------------------------------------------------------
(* C3 *)

\* C3: teardown is idempotent.  Over any number of calls every recorded listener is
\* detached exactly once, in order, by the first call; later calls detach nothing.
C3_TeardownIdempotent ==
    /\ destroyCalls = 0 => detached = <<>>
    /\ destroyCalls >= 1 =>
          /\ detached = [i \in 1..Len(listeners) |-> listeners[i].handler]
          /\ \A i, j \in 1..Len(detached) : detached[i] = detached[j] => i = j

\* Two calls of teardown on an engine with several listeners.
C3_Witness ==
    /\ destroyCalls = 2
    /\ Len(listeners) >= 2
    /\ Len(detached) = Len(listeners)
    /\ rootListeners = <<>>

-----------------------------------------------------------------------------
(* C8 *)

\* C8: enter/leave emulation.  For t in {mouseenter, mouseleave} and the matched
\* element el (nearest carrier of on-t, inside the root, naming a registry function,
\* t subscribed, engine not torn down), the action is suppressed exactly when the
\* event's related target exists and is contained in el (el itself included);
\* otherwise it is invoked exactly once with element === el.
C8_EnterLeaveEmulation ==
    (lastOp = "dispatch" /\ Live) =>
        \A t \in {"mouseenter", "mouseleave"}, el \in Elements :
            ( /\ ev.type = BubblingTypeOf(t)
              /\ Subscribed(t)
              /\ Contains(root, el)
              /\ Contains(root, ev.target)
              /\ NearestCarrier(el, ev.target, t)
              /\ OwnFunction(getAttribute(attrs, el, OnAttr(t))) )
            => IF \E n \in Nodes : n = ev.related /\ (n = el \/ Contains(el, n))
               THEN CallsVia(t) = <<>>
               ELSE CallsVia(t) = TheCall(t, getAttribute(attrs, el, OnAttr(t)), el)

\* outer[on-mouseenter=a] > inner: the pointer comes from outside outer straight onto
\* inner, and a is invoked once with element outer.
C8_Witness ==
    /\ lastOp = "dispatch" /\ Live
    /\ ev.type = "mouseover" /\ ev.target = "inner"
    /\ ev.related \in {NoNode, "wrap"}
    /\ ~hasAttribute(attrs, "inner", OnAttr("mouseenter"))
    /\ hasAttribute(attrs, "outer", OnAttr("mouseenter"))
    /\ getAttribute(attrs, "outer", OnAttr("mouseenter")) = "a"
    /\ calls = TheCall("mouseenter", "a", "outer")

\* outer[on-mouseenter=a][on-mouseleave=b] > inner: the pointer moves from inner to
\* outer (mouseout on inner, related target outer) and the leave action stays quiet.
C8_WitnessInside ==
    /\ lastOp = "dispatch" /\ Live
    /\ ev.type = "mouseout" /\ ev.target = "inner" /\ ev.related = "outer"
    /\ "mouseleave" \in Range(usedEvents)
    /\ hasAttribute(attrs, "outer", OnAttr("mouseleave"))
    /\ hasAttribute(attrs, "outer", OnAttr("mouseenter"))
    /\ ~hasAttribute(attrs, "inner", OnAttr("mouseleave"))
    /\ calls = <<>>

-----------------------------------------------------------------------------
(* C9 *)

EngineListenersAttached ==
    \A i \in 1..Len(listeners) :
        \E j \in 1..Len(rootListeners) :
            /\ rootListeners[j].type = listeners[i].type
            /\ rootListeners[j].handler = listeners[i].handler

\* C9: when the attribute of the matched element names an action that is absent from
\* the registry or not callable, the dispatch emits a diagnostic, invokes nothing and
\* throws nothing, and the engine's listeners stay attached.
C9_MissingActionOnlyWarns ==
    (lastOp = "dispatch" /\ Live) =>
        \A t \in SupportedNames \ NonDelegableNames, el \in Elements :
            ( /\ ev.type = BubblingTypeOf(t)
              /\ Subscribed(t)
              /\ Contains(root, el)
              /\ Contains(root, ev.target)
              /\ NearestCarrier(el, ev.target, t)
              /\ ~OwnFunction(getAttribute(attrs, el, OnAttr(t)))
              /\ ~(t \in {"mouseenter", "mouseleave"} /\ Contains(el, ev.related)) )
            => /\ CallsVia(t) = <<>>
               /\ \E i \in 1..Len(warns) :
                     warns[i] = [fnName |-> getAttribute(attrs, el, OnAttr(t)), type |-> t]
               /\ thrown = <<>>
               /\ EngineListenersAttached

-----------------------------------------------------------------------------
(* C5 *)

\* C5: every candidate name outside the supported set is discarded, from an
\* attribute or from preloadEvents: the used-event set holds supported names only
\* and no listener is attached for an unsupported name.
C5_OnlySupportedNamesUsed ==
    /\ \A i \in 1..Len(usedEvents) : usedEvents[i] \in SupportedNames
    /\ \A i \in 1..Len(rootListeners) : rootListeners[i].handler.type \in SupportedNames
    /\ \A i \in 1..Len(listeners) : listeners[i].handler.type \in SupportedNames

-----------------------------------------------------------------------------
(* C10 *)

\* actions is missing or not an object
BadActions == given.actions.kind # "object"

C10_WitnessGraceful ==
    /\ phase = "live"
    /\ error = "none"
    /\ "bogus" \in Range(preloadEvents)
    /\ \E el \in Elements : Below(root, el) /\ CarriedAtInit(el, "bogus")

-----------------------------------------------------------------------------
(* C11 *)

\* C11: when onEvents raises the configuration error for a missing or non-object
\* actions, it does so before any effect: the call leaves the listener list of the
\* root as it was before the call, and the engine has attached no listener, kept no
\* record and discovered no type.
C11_ConfigErrorBeforeAnyEffect ==
    /\ [](error = "config" =>
            /\ EngineListenersOnRoot = {}
            /\ listeners = <<>>
            /\ usedEvents = <<>>
            /\ initWarns = <<>>)
    /\ [][(phase = "idle" /\ phase' = "threw" /\ error' = "config") =>
            rootListeners' = rootListeners]_vars

\* The call threw for a missing actions, on a document that carries on-click and on a
\* root that already had listeners (of another engine) before the call.
C11_Witness ==
    /\ phase = "threw"
    /\ error = "config"
    /\ lastOp = "onEvents"
    /\ rootListeners # <<>>
    /\ \E el \in Elements : hasAttribute(attrs, el, OnAttr("click"))

-----------------------------------------------------------------------------
(* C12 *)

\* C12: every invocation made by the handler installed for type t gets the pair
\* {event, element} where event is the event the listener received (one that bubbles
\* under the DOM type of t) and element is an element that carries on-<t>, is
\* contained in the bound root, and whose on-<t> value is the name invoked.
C12_InvocationArgument ==
    lastOp = "dispatch" =>
        \A i \in 1..Len(calls) :
            LET c == calls[i] IN
            /\ c.event = ev
            /\ ev.type = BubblingTypeOf(c.via)
            /\ c.element \in Elements
            /\ hasAttribute(attrs, c.element, OnAttr(c.via))
            /\ Contains(root, c.element)
            /\ getAttribute(attrs, c.element, OnAttr(c.via)) = c.name

\* A click inside a root that is not the document, matched on an ancestor of the
\* target, while an element outside the root carries on-click too.
C12_Witness ==
    /\ lastOp = "dispatch"
    /\ root = "outer"
    /\ ev.type = "click"
    /\ Len(calls) = 1
    /\ calls[1].element # ev.target
    /\ hasAttribute(attrs, "wrap", OnAttr("click"))

-----------------------------------------------------------------------------
(* C13 *)

\* the diagnostics of the handler installed for type t
WarnsVia(t) == SelectSeq(warns, LAMBDA w : w.type = t)

\* the engine's listeners on the root that a DOM event of type d runs
EngineListenersFor(d) ==
    {i \in EngineListenersOnRoot : rootListeners[i].type = d}

\* C13, as stated: no two listener records of the engine have the same effective
\* (post-remap) DOM type, and one DOM event reaching the root runs at most one
\* handler of the engine, also when an event and its remap target are both in use.
C13_OneHandlerPerEffectiveType ==
    /\ \A i, j \in 1..Len(listeners) : i # j => listeners[i].type # listeners[j].type
    /\ lastOp = "dispatch" => Cardinality(EngineListenersFor(ev.type)) <= 1

\* C13, amended: the engine installs one handler per used delegable name: no two
\* records have the same handler, every record is filed under the DOM type its name
\* bubbles as, and one DOM event makes the handler of a name act (invoke or warn) at
\* most once.  Two records share a DOM type when a name and its remap target are both
\* used, and then one DOM event runs both handlers.
C13_OneHandlerPerUsedName ==
    /\ \A i, j \in 1..Len(listeners) :
          i # j => listeners[i].handler.type # listeners[j].handler.type
    /\ \A i \in 1..Len(listeners) :
          listeners[i].type = BubblingTypeOf(listeners[i].handler.type)
    /\ \A i, j \in 1..Len(listeners) :
          (i # j /\ listeners[i].type = listeners[j].type) =>
              \/ listeners[i].type = BubblingTypeOf(listeners[j].handler.type)
                   /\ listeners[i].type = listeners[i].handler.type
              \/ listeners[j].type = BubblingTypeOf(listeners[i].handler.type)
                   /\ listeners[j].type = listeners[j].handler.type
    /\ lastOp = "dispatch" =>
          \A t \in SupportedNames : Len(CallsVia(t)) + Len(WarnsVia(t)) <= 1

\* mouseenter and mouseover both in use: two records under mouseover, and one
\* mouseover event on an element carrying both attributes invokes through both.
C13_Witness ==
    /\ lastOp = "dispatch"
    /\ Live
    /\ ev.type = "mouseover"
    /\ \E i, j \in 1..Len(listeners) :
          /\ i # j
          /\ listeners[i].type = "mouseover"
          /\ listeners[j].type = "mouseover"
    /\ Len(CallsVia("mouseenter")) = 1
    /\ Len(CallsVia("mouseover")) = 1

-----------------------------------------------------------------------------
(* C14 *)

\* C14: for every used delegable type t the listener is subscribed under the
\* remapped type, and the handler resolves the nearest carrier of on-<t>, the
\* original name: it acts for the nearest carrier of on-<t> inside the root or for
\* nothing, so an element carrying only on-<remapped type> is never matched by it.
C14_RemappedSubscriptionOriginalLookup ==
    /\ phase = "live" =>
          \A i \in 1..Len(usedEvents) :
              usedEvents[i] \in SupportedNames \ NonDelegableNames =>
                  \E j \in 1..Len(listeners) :
                      /\ listeners[j].handler.type = usedEvents[i]
                      /\ listeners[j].type = BubblingTypeOf(usedEvents[i])
    /\ Live =>
          \A j \in 1..Len(listeners) :
              \E k \in 1..Len(rootListeners) :
                  /\ rootListeners[k].handler = listeners[j].handler
                  /\ rootListeners[k].type = BubblingTypeOf(listeners[j].handler.type)
    /\ lastOp = "dispatch" =>
          \A i \in 1..Len(calls) :
              /\ ev.type = BubblingTypeOf(calls[i].via)
              /\ NearestCarrier(calls[i].element, ev.target, calls[i].via)

\* mouseenter is in use, the mouseover of the DOM reaches an element that carries
\* on-mouseover only, and the handler installed for mouseenter does nothing.
C14_Witness ==
    /\ lastOp = "dispatch"
    /\ Live
    /\ ev.type = "mouseover"
    /\ ev.related = NoNode
    /\ "mouseenter" \in Range(usedEvents)
    /\ hasAttribute(attrs, ev.target, OnAttr("mouseover"))
    /\ Carriers(ev.target, "mouseenter") = {}
    /\ CallsVia("mouseenter") = <<>>
    /\ \E j \in 1..Len(listeners) :
          listeners[j].handler.type = "mouseenter" /\ listeners[j].type = "mouseover"

-----------------------------------------------------------------------------
(* C15 *)

\* the node the event ev started at has no inclusive ancestor carrying on-<t>, or
\* the nearest one lies outside the bound root
NothingToMatch(t) ==
    \/ Carriers(ev.target, t) = {}
    \/ \E el \in Elements : NearestCarrier(el, ev.target, t) /\ ~Contains(root, el)

\* C15: a dispatch whose originating node has no inclusive ancestor carrying
\* on-<type>, or whose nearest such ancestor lies outside the bound root, has no side
\* effect: no action is invoked, no diagnostic is emitted, nothing is thrown, and the
\* listener records and the listeners on the root are what they were.
C15_AbortWithoutSideEffect ==
    /\ [](lastOp = "dispatch" =>
            \A t \in SupportedNames :
                NothingToMatch(t) =>
                    /\ CallsVia(t) = <<>>
                    /\ WarnsVia(t) = <<>>
                    /\ t \notin Range(thrown))
    /\ [][(lastOp' = "dispatch" /\ \A t \in SupportedNames : NothingToMatch(t)') =>
            /\ listeners' = listeners
            /\ rootListeners' = rootListeners
            /\ calls' = <<>>
            /\ warns' = <<>>
            /\ thrown' = <<>>]_vars

\* A click inside a root that is not the document; click is subscribed, and the only
\* carrier of on-click on the way up is outside the root.
C15_Witness ==
    /\ lastOp = "dispatch"
    /\ Live
    /\ root = "outer"
    /\ ev.type = "click"
    /\ ev.target = "inner"
    /\ "click" \in Range(usedEvents)
    /\ Carriers("inner", "click") = {"wrap"}
    /\ calls = <<>>
    /\ warns = <<>>
    /\ thrown = <<>>

\* A click on an element with no carrier of on-click at all, click subscribed.
C15_WitnessNoCarrier ==
    /\ lastOp = "dispatch"
    /\ Live
    /\ ev.type = "click"
    /\ ev.target = "outer"
    /\ "click" \in Range(usedEvents)
    /\ Carriers("outer", "click") = {}
    /\ hasAttribute(attrs, "inner", OnAttr("click"))
    /\ calls = <<>>
    /\ warns = <<>>

-----------------------------------------------------------------------------
(* C16 *)

\* the second engine is initialized and not torn down
OtherLive == other.phase = "live" /\ other.destroyCalls = 0

\* every record of the sequence ls has its listener on the root
AllAttached(ls) ==
    \A i \in 1..Len(ls) :
        \E j \in 1..Len(rootListeners) :
            /\ rootListeners[j].type = ls[i].type
            /\ rootListeners[j].handler = ls[i].handler

\* what the handlers of the records ls have to invoke for the event ev, given the
\* invocations cs they made: for every name with a record, the action named by the
\* nearest carrier, once
DispatchesFor(ls, cs) ==
    \A i \in 1..Len(ls) :
        LET t == ls[i].handler.type IN
        \A el \in Elements :
            (ev.type = BubblingTypeOf(t) /\ NearestCarrier(el, ev.target, t)
               /\ getAttribute(attrs, el, OnAttr(t)) = "a") =>
                SelectSeq(cs, LAMBDA c : c.via = t) =
                    << [via |-> t, name |-> "a", owner |-> "actions", element |-> el,
                        event |-> ev] >>

\* C16: engine instances are independent: no listener record belongs to both, the
\* teardown of one engine detaches only its own listeners, and an engine bound to the
\* same root with the same event types keeps all of its listeners and keeps
\* dispatching whatever the other engine did.
C16_InstancesIndependent ==
    /\ \A i \in 1..Len(listeners), j \in 1..Len(other.listeners) :
          listeners[i].handler # other.listeners[j].handler
    /\ OtherLive => AllAttached(other.listeners)
    /\ Live => AllAttached(listeners)
    /\ (lastOp = "dispatch" /\ OtherLive) => DispatchesFor(other.listeners, otherCalls)
    /\ (lastOp = "dispatch" /\ Live) => DispatchesFor(listeners, calls)

\* Two engines on the same root, both subscribed to click; the first one was torn
\* down, and a click still invokes the action through the second one only.
C16_Witness ==
    /\ lastOp = "dispatch"
    /\ phase = "live"
    /\ destroyCalls > 0
    /\ OtherLive
    /\ other.root = root
    /\ ev.type = "click"
    /\ \E i \in 1..Len(listeners), j \in 1..Len(other.listeners) :
          listeners[i].type = "click" /\ other.listeners[j].type = "click"
    /\ calls = <<>>
    /\ Len(otherCalls) = 1

-----------------------------------------------------------------------------
(* C17 *)

\* C17: the listener records change only during initialization: no dispatch, whatever
\* its outcome, adds, removes or reorders a record or attaches or detaches a listener
\* on the root, no other step after onEvents changes the records either, and from the
\* return of onEvents to the first teardown the listeners the engine has on the root
\* are exactly its records.
C17_RecordsChangeOnlyAtInit ==
    /\ [](Live =>
            /\ AllAttached(listeners)
            /\ \A k \in EngineListenersOnRoot :
                  \E i \in 1..Len(listeners) :
                      /\ listeners[i].type = rootListeners[k].type
                      /\ listeners[i].handler = rootListeners[k].handler
            /\ Cardinality(EngineListenersOnRoot) = Len(listeners))
    /\ [][lastOp' = "dispatch" =>
            (listeners' = listeners /\ rootListeners' = rootListeners)]_vars
    /\ [][listeners' # listeners => (phase = "idle" /\ lastOp' = "onEvents")]_vars

\* A dispatch that ended in the diagnostic, on a live engine with a record.
C17_Witness ==
    /\ lastOp = "dispatch"
    /\ Live
    /\ listeners # <<>>
    /\ calls = <<>>
    /\ warns # <<>>

\* A dispatch that invoked an action, on a live engine with a record.
C17_WitnessInvoked ==
    /\ lastOp = "dispatch"
    /\ Live
    /\ listeners # <<>>
    /\ Len(calls) = 1
    /\ calls[1].owner = "actions"
    /\ warns = <<>>

-----------------------------------------------------------------------------
(* C18 *)

\* C18: discovery and dispatch agree on the scope of the root: every element that
\* dispatch accepts as inside the root (the root itself included) and that carried
\* on-<t> for a supported delegable t when onEvents ran has t in the used-event set.
C18_DiscoveryCoversDispatchScope ==
    phase = "live" =>
        \A el \in Elements, t \in SupportedNames \ NonDelegableNames :
            (Contains(root, el) /\ CarriedAtInit(el, t)) => t \in Range(usedEvents)

-----------------------------------------------------------------------------
(* C19 *)

\* C19: a dispatch invokes a function only when the value of the matched attribute
\* is a key the caller put in the actions registry (and that key holds a function);
\* for every other value, the empty string and the names the registry object merely
\* inherits included, it invokes nothing, emits the missing-action diagnostic and
\* throws nothing.
C19_OnlyOwnKeysInvoked ==
    (lastOp = "dispatch" /\ Live) =>
        /\ \A i \in 1..Len(calls) : OwnFunction(calls[i].name)
        /\ thrown = <<>>
        /\ \A el \in Elements :
              (NearestCarrier(el, ev.target, "click") /\ ev.type = "click"
                 /\ "click" \in Range(usedEvents)
                 /\ ~OwnFunction(getAttribute(attrs, el, OnAttr("click")))) =>
                  /\ calls = <<>>
                  /\ warns = << [fnName |-> getAttribute(attrs, el, OnAttr("click")),
                                 type |-> "click"] >>

-----------------------------------------------------------------------------
(* C20 *)

\* something the handler of click reads was changed after onEvents returned: an
\* entry was added to or removed from the registry, or el got its on-click since
ChangedSinceInit(el) ==
    \/ actions # given.actions
    \/ <<el, OnAttr("click")>> \in lateAttrs

\* C20: the action name and the registry are resolved at dispatch time: after a
\* change of the attribute or of the registry made once onEvents has returned, the
\* next event of a subscribed type invokes the action that the current attribute
\* value names in the current registry, or emits the diagnostic when it names none.
C20_ResolvedAtDispatchTime ==
    (lastOp = "dispatch" /\ Live /\ ev.type = "click" /\ "click" \in Range(usedEvents)) =>
        \A el \in Elements :
            (NearestCarrier(el, ev.target, "click") /\ ChangedSinceInit(el)) =>
                LET name == getAttribute(attrs, el, OnAttr("click")) IN
                IF OwnFunction(name)
                THEN calls = TheCall("click", name, el) /\ warns = <<>>
                ELSE calls = <<>> /\ warns = << [fnName |-> name, type |-> "click"] >>

\* The same for the attribute values that are not names the registry object inherits:
\* there the current value is looked up in the current registry.
C20_CurrentValueCurrentRegistry ==
    (lastOp = "dispatch" /\ Live /\ ev.type = "click" /\ "click" \in Range(usedEvents)) =>
        \A el \in Elements :
            (NearestCarrier(el, ev.target, "click")
               /\ getAttribute(attrs, el, OnAttr("click")) \notin ObjectPrototypeFunctions) =>
                LET name == getAttribute(attrs, el, OnAttr("click")) IN
                IF OwnFunction(name)
                THEN calls = TheCall("click", name, el) /\ warns = <<>>
                ELSE calls = <<>> /\ warns = << [fnName |-> name, type |-> "click"] >>

\* An action registered after onEvents returned is invoked by the next click.
C20_WitnessAdded ==
    /\ lastOp = "dispatch"
    /\ Live
    /\ "m" \notin DOMAIN given.actions.props
    /\ Len(calls) = 1
    /\ calls[1].name = "m"

\* An action deleted after onEvents returned gives the diagnostic at the next click.
C20_WitnessDeleted ==
    /\ lastOp = "dispatch"
    /\ Live
    /\ "a" \notin DOMAIN actions.props
    /\ calls = <<>>
    /\ warns = << [fnName |-> "a", type |-> "click"] >>

====
